---- MODULE Spec2Model ----
(***************************************************************************)
(* Model of the transcript pipeline: the Orchestrator (main thread: start, *)
(* run_pipeline_worker, process_transcript, stop), the signal handler and  *)
(* the GongListener polling thread, sharing one queue.Queue.               *)
(***************************************************************************)
EXTENDS Integers, Sequences, FiniteSets, TLC

\* ------------------------------------------------------------------ bounds
NumIds == 2          \* transcript identifiers the discovery call can return
MaxRows == 2         \* rows in one discovery result
MaxNow == 4          \* last clock tick the model explores
MaxRaises == 3       \* exceptions the stage calls raise to process_transcript in one behaviour
MaxDocCalls == 5     \* update_drive_docs calls that return in one behaviour of DriveSpec

\* -------------------------------------------------------- program constants
MAX_RETRIES == 3     \* the default of int(os.getenv('MAX_RETRIES', 3))
StopAfterAttempt == 3  \* tenacity stop_after_attempt(3)
DayTicks == 3        \* timedelta(days=1), in clock ticks
RunAt == 1           \* dt_time(run_hour, run_minute), in ticks after midnight
IdleTicks == 1       \* _idle_sleep_seconds, in ticks
ErrSleepTicks == 1   \* time.sleep(30) after a listener error, in ticks (rounded up)

Ids == 1..NumIds
NoId == 0            \* row.get('transcript_id') is None or empty
BadRow == -1         \* a row on which row.get raises (not a dict)
EntryMark == 0       \* the "--- timestamp ---" header of a Summary Log entry
RowValues == Ids \cup {NoId, BadRow}

Min(a, b) == IF a < b THEN a ELSE b
Max(a, b) == IF a > b THEN a ELSE b

VARIABLES
    event_queue,      \* queue.Queue: the waiting identifiers, oldest first
    unfinished_tasks, \* queue.Queue.unfinished_tasks (put: +1, task_done: -1)
    running,          \* Orchestrator.running
    max_retries,      \* Orchestrator.max_retries, read from the environment by __init__
    pc,               \* position of the main thread
    cur,              \* transcript_id held by the worker (NoId: none)
    attempt,          \* the attempt argument of the running process_transcript
    log,              \* status tags _log_structured wrote for the attempt in hand
    trace,            \* <<stage, outcome>> of the stage calls of the attempt in hand
    in_flight_gauge,  \* Gauge pipeline_in_flight
    lrunning,         \* GongListener.running
    lpc,              \* position of the listener thread
    processed_ids,    \* GongListener.processed_ids
    next_run,         \* local next_run of start_listening
    wake,             \* clock value at which the listener's time.sleep returns
    new_rows,         \* number of rows of the current cycle not yet iterated
    now,              \* wall clock, in ticks
    started_at,       \* history: the clock when start_listening computed its first next_run
    first_run,        \* history: the first next_run start_listening computed
    failed_for,       \* history: the next_run values whose discovery call failed
    signalled,        \* history: a termination signal was delivered since start() set running
    runs,             \* history: process_transcript invocations per identifier
    requeued_at,      \* history: attempt number at which the identifier was last requeued (0: never)
    requeued,         \* history: requeue puts made by the current attempt
    final_failed,     \* history: identifiers with a PIPELINE_FAILED_FINAL event
    documented,       \* history: identifiers whose summary was appended to the Summary Log
    csNotified,       \* history: identifiers whose CS email was sent
    amNotified,       \* history: identifiers whose AM email was sent
    emails_sent,      \* history: send_email calls that returned in the attempt in hand
    pollerPuts,       \* history: puts by the listener per identifier
    put_log,          \* history: every identifier put on the queue, in the order of the puts
    stage_calls,      \* history: underlying calls made for the last stage call of the attempt in hand
    call_outs,        \* history: what each of those underlying calls did, in the order of the calls
    success_counter,  \* Counter pipeline_success_total
    error_counter,    \* Counter pipeline_error_total, by its module label
    drive,            \* Google Drive: the folders and the two documents of the account
    doc_calls,        \* history: the summaries of the update_drive_docs calls that returned
    doc_returned,     \* history: the last update_drive_docs call returned (it did not raise)
    gets,             \* history: successful event_queue.get calls
    dones,            \* history: event_queue.task_done calls
    raises            \* history: exceptions raised to process_transcript

vars == <<event_queue, unfinished_tasks, running, max_retries, pc, cur, attempt, log, trace,
          in_flight_gauge, lrunning, lpc, processed_ids, next_run, wake, new_rows,
          now, started_at, first_run, failed_for, signalled, runs, requeued_at, requeued, final_failed, documented,
          csNotified, amNotified, emails_sent, pollerPuts, put_log, gets, dones, raises,
          stage_calls, call_outs, success_counter, error_counter, drive, doc_calls,
          doc_returned>>

mainVars == <<running, pc, cur, attempt, log, trace, in_flight_gauge>>
config == <<max_retries>>
listenerVars == <<lrunning, lpc, processed_ids, next_run, wake, new_rows,
                  started_at, first_run, failed_for>>
metrics == <<success_counter, error_counter>>
driveVars == <<drive, doc_calls, doc_returned>>
workHist == <<runs, requeued_at, requeued, final_failed, documented, csNotified,
              amNotified, emails_sent, gets, dones, raises, stage_calls, call_outs,
              success_counter, error_counter, drive, doc_calls, doc_returned>>

\* the module labels of pipeline_error_total
Modules == {"fetcher", "assistant", "drive_documenter", "email_dispatcher", "orchestrator"}

\* the state after Orchestrator.__init__ in an environment whose MAX_RETRIES is limit
InitWith(limit) ==
    /\ event_queue = <<>>
    /\ unfinished_tasks = 0
    /\ running = FALSE
    /\ max_retries = limit
    /\ pc = "init"
    /\ cur = NoId
    /\ attempt = 0
    /\ log = <<>>
    /\ trace = <<>>
    /\ in_flight_gauge = 0
    /\ lrunning = FALSE
    /\ lpc = "off"
    /\ processed_ids = {}
    /\ next_run = 0
    /\ wake = 0
    /\ new_rows = 0
    /\ now \in 0..(DayTicks - 1)
    /\ started_at = 0
    /\ first_run = 0
    /\ failed_for = {}
    /\ signalled = FALSE
    /\ runs = [i \in Ids |-> 0]
    /\ requeued_at = [i \in Ids |-> 0]
    /\ requeued = 0
    /\ final_failed = {}
    /\ documented = {}
    /\ csNotified = {}
    /\ amNotified = {}
    /\ emails_sent = 0
    /\ pollerPuts = [i \in Ids |-> 0]
    /\ put_log = <<>>
    /\ stage_calls = 0
    /\ call_outs = <<>>
    /\ success_counter = 0
    /\ error_counter = [m \in Modules |-> 0]
    /\ drive = [clients_folders |-> 0, account_folders |-> 0, call_docs |-> 0,
                call_text |-> <<>>, log_docs |-> 0, log_text |-> <<>>]
    /\ doc_calls = <<>>
    /\ doc_returned = TRUE
    /\ gets = 0
    /\ dones = 0
    /\ raises = 0

\* the state after construction with MAX_RETRIES unset
Init == InitWith(MAX_RETRIES)

\* Orchestrator.start: set the flag (undoing a signal delivered before it),
\* start the listener thread, enter the worker
Start ==
    /\ pc = "init"
    /\ running' = TRUE
    /\ lpc' = "start"
    /\ pc' = "loop"
    /\ signalled' = FALSE
    /\ UNCHANGED <<event_queue, unfinished_tasks, cur, attempt, log, trace,
                   in_flight_gauge, lrunning, processed_ids, next_run, wake,
                   new_rows, now, started_at, first_run, failed_for>>
    /\ UNCHANGED workHist
    /\ UNCHANGED <<pollerPuts, put_log>>
    /\ UNCHANGED config

\* ------------------------------------------------------------ queue.Queue
\* mutant of put: the item is placed at the head (a LIFO queue)
put_at_head(q, x) == <<x>> \o q

\* Queue.put: append at the tail (and count one more unfinished task)
put(q, x) == Append(q, x)

\* Queue.join returns when no task is unfinished
JoinReturns(u) == u = 0

\* ------------------------------------------------------ signal handler
\* mutant of Signal: the signal interrupts the main thread (the default SIGINT
\* behaviour, KeyboardInterrupt): an attempt in hand is abandoned and control
\* passes to stop()
Signal_interrupts ==
    /\ pc # "stopped"
    /\ running \/ ~signalled
    /\ running' = FALSE
    /\ signalled' = TRUE
    /\ pc' = IF cur # NoId THEN "stop" ELSE pc
    /\ UNCHANGED <<event_queue, unfinished_tasks, cur, attempt, log, trace,
                   in_flight_gauge, now, pollerPuts, put_log>>
    /\ UNCHANGED listenerVars
    /\ UNCHANGED workHist
    /\ UNCHANGED config

\* Orchestrator._signal_handler: clears Orchestrator.running only (a further
\* signal, once the flag is clear, changes nothing and is not drawn)
Signal ==
    /\ pc # "stopped"
    /\ running \/ ~signalled
    /\ running' = FALSE
    /\ signalled' = TRUE
    /\ UNCHANGED <<event_queue, unfinished_tasks, pc, cur, attempt, log, trace,
                   in_flight_gauge, now, pollerPuts, put_log>>
    /\ UNCHANGED listenerVars
    /\ UNCHANGED workHist
    /\ UNCHANGED config

\* ------------------------------------------------- run_pipeline_worker
\* the attempt argument the worker passes: process_transcript(transcript_id)
\* is called with one argument, so attempt takes its default
CallAttempt(transcript_id) == 1

\* mutant of WorkerGet: the next identifier is taken before the one in hand was
\* marked done (a second pipeline execution starts)
WorkerGet_overlapping ==
    /\ pc \in {"loop", "task_done"}
    /\ running
    /\ event_queue # <<>>
    /\ cur' = Head(event_queue)
    /\ event_queue' = Tail(event_queue)
    /\ attempt' = CallAttempt(Head(event_queue))
    /\ gets' = gets + 1
    /\ pc' = "process"
    /\ UNCHANGED <<unfinished_tasks, running, log, trace, in_flight_gauge, now,
                   signalled, runs, requeued_at, requeued, final_failed, documented,
                   csNotified, amNotified, emails_sent, pollerPuts, put_log, dones, raises,
                   stage_calls, call_outs>>
    /\ UNCHANGED metrics
    /\ UNCHANGED driveVars
    /\ UNCHANGED listenerVars
    /\ UNCHANGED config

\* while self.running: transcript_id = self.event_queue.get(timeout=5)
\* (the queue_size_gauge update has no effect on control and is left out)
WorkerGet ==
    /\ pc = "loop"
    /\ running
    /\ event_queue # <<>>
    /\ cur' = Head(event_queue)
    /\ event_queue' = Tail(event_queue)
    /\ attempt' = CallAttempt(Head(event_queue))
    /\ gets' = gets + 1
    /\ pc' = "process"
    /\ UNCHANGED <<unfinished_tasks, running, log, trace, in_flight_gauge, now,
                   signalled, runs, requeued_at, requeued, final_failed, documented,
                   csNotified, amNotified, emails_sent, pollerPuts, put_log, dones, raises,
                   stage_calls, call_outs>>
    /\ UNCHANGED metrics
    /\ UNCHANGED driveVars
    /\ UNCHANGED listenerVars
    /\ UNCHANGED config

\* get times out on an empty queue: except queue.Empty: continue
WorkerEmpty ==
    /\ pc = "loop"
    /\ running
    /\ event_queue = <<>>
    /\ UNCHANGED vars

\* the while condition fails: run_pipeline_worker and start return
WorkerExit ==
    /\ pc = "loop"
    /\ ~running
    /\ pc' = "stop"
    /\ UNCHANGED <<event_queue, unfinished_tasks, running, cur, attempt, log, trace,
                   in_flight_gauge, now, signalled, pollerPuts, put_log>>
    /\ UNCHANGED listenerVars
    /\ UNCHANGED workHist
    /\ UNCHANGED config

\* self.event_queue.task_done()
TaskDone ==
    /\ pc = "task_done"
    /\ unfinished_tasks' = unfinished_tasks - 1
    /\ dones' = dones + 1
    /\ cur' = NoId
    /\ attempt' = 0
    /\ log' = <<>>
    /\ trace' = <<>>
    /\ requeued' = 0
    /\ emails_sent' = 0
    /\ stage_calls' = 0
    /\ call_outs' = <<>>
    /\ pc' = "loop"
    /\ UNCHANGED <<event_queue, running, in_flight_gauge, now, signalled, runs,
                   requeued_at, final_failed, documented, csNotified, amNotified,
                   pollerPuts, put_log, gets, raises>>
    /\ UNCHANGED metrics
    /\ UNCHANGED driveVars
    /\ UNCHANGED listenerVars
    /\ UNCHANGED config

\* --------------------------------------------------- process_transcript
Outcomes == {"ok", "none", "exc"}
StageOrder == <<"fetch", "summarize", "document", "notify">>

\* mutant of RetryFrom: the wrapper also retries on a None result (a
\* retry_if_result condition)
RECURSIVE RetryFrom_retries_none(_, _)
RetryFrom_retries_none(outs, i) ==
    IF outs[i] = "ok" \/ i >= StopAfterAttempt
        THEN <<outs[i], i>>
        ELSE RetryFrom_retries_none(outs, i + 1)

\* tenacity @retry(stop=stop_after_attempt(3)): the wrapped call is made again
\* only when it raised; outs[i] is what the i-th underlying call would do
RECURSIVE RetryFrom(_, _)
RetryFrom(outs, i) ==
    IF outs[i] # "exc" \/ i >= StopAfterAttempt
        THEN <<outs[i], i>>
        ELSE RetryFrom(outs, i + 1)

\* result of the wrapped call
Tenacity(outs) == RetryFrom(outs, 1)[1]

\* number of underlying calls the wrapper made
TenacityCalls(outs) == RetryFrom(outs, 1)[2]

\* what the underlying calls the wrapper made did, in the order of the calls
TenacityTrace(outs) == SubSeq(outs, 1, TenacityCalls(outs))

\* Orchestrator._should_retry
should_retry(transcript_id, att) == att < max_retries

\* mutant of NextPc: the None checks are missing, only an exception ends the attempt
NextPc_unchecked(stage, r) ==
    IF r # "exc"
        THEN CASE stage = "fetch" -> "summarize"
               [] stage = "summarize" -> "document"
               [] stage = "document" -> "notify"
               [] OTHER -> "task_done"
        ELSE "task_done"

\* mutant of NextPc: an exception is raised on to the worker loop, whose
\* except Exception skips task_done
NextPc_reraises(stage, r) ==
    IF r = "ok"
        THEN CASE stage = "fetch" -> "summarize"
               [] stage = "summarize" -> "document"
               [] stage = "document" -> "notify"
               [] OTHER -> "task_done"
        ELSE IF r = "exc" THEN "loop" ELSE "task_done"

\* the position after a stage call: the next stage after a success value, the
\* end of process_transcript after None (return False) or an exception
NextPc(stage, r) ==
    IF r = "ok"
        THEN CASE stage = "fetch" -> "summarize"
               [] stage = "summarize" -> "document"
               [] stage = "document" -> "notify"
               [] OTHER -> "task_done"
        ELSE "task_done"

\* the status tag of a stage's success event
SuccessTag(stage) ==
    CASE stage = "fetch" -> "FETCH_SUCCESS"
      [] stage = "summarize" -> "SUMMARY_SUCCESS"
      [] stage = "document" -> "DRIVE_SUCCESS"
      [] OTHER -> "EMAIL_SUCCESS"

\* the status tag logged when a stage returns None
FailTag(stage) == IF stage = "fetch" THEN "FAILED_FETCH" ELSE "FAILED_OAI"

\* what the underlying calls of one wrapped call can do: outs[i] for a call
\* that is never made (after one that did not raise) repeats the last outcome
UnderlyingCalls(S) ==
    {outs \in [1..StopAfterAttempt -> S] :
        \A i \in 1..(StopAfterAttempt - 1) : outs[i] # "exc" => outs[i + 1] = outs[i]}

\* a stage may raise only while the model's budget of exceptions lasts
CanRaise == raises < MaxRaises

\* entry: in_flight_gauge.inc(), PROCESSING_STARTED
ProcessEnter ==
    /\ pc = "process"
    /\ in_flight_gauge' = in_flight_gauge + 1
    /\ log' = <<"PROCESSING_STARTED">>
    /\ trace' = <<>>
    /\ requeued' = 0
    /\ emails_sent' = 0
    /\ stage_calls' = 0
    /\ call_outs' = <<>>
    /\ runs' = [runs EXCEPT ![cur] = @ + 1]
    /\ pc' = "fetch"
    /\ UNCHANGED <<event_queue, unfinished_tasks, running, cur, attempt, now,
                   signalled, requeued_at, final_failed, documented, csNotified,
                   amNotified, pollerPuts, put_log, gets, dones, raises>>
    /\ UNCHANGED metrics
    /\ UNCHANGED driveVars
    /\ UNCHANGED listenerVars
    /\ UNCHANGED config

\* mutant of requeue_transcript: the identifier is appended to the queue's
\* deque directly, so the put is not counted as an unfinished task
requeue_transcript_uncounted(transcript_id) ==
    /\ event_queue' = put(event_queue, transcript_id)
    /\ unfinished_tasks' = unfinished_tasks
    /\ put_log' = Append(put_log, transcript_id)

\* Orchestrator._requeue_transcript
requeue_transcript(transcript_id) ==
    /\ event_queue' = put(event_queue, transcript_id)
    /\ unfinished_tasks' = unfinished_tasks + 1
    /\ put_log' = Append(put_log, transcript_id)

\* mutant of Succeeded: a successful attempt also puts the identifier back
Succeeded_requeues(stage) ==
    /\ IF stage = "notify"
         THEN /\ log' = log \o <<SuccessTag(stage), "PIPELINE_SUCCESS">>
              /\ in_flight_gauge' = in_flight_gauge - 1
              /\ requeue_transcript(cur)
         ELSE /\ log' = Append(log, SuccessTag(stage))
              /\ UNCHANGED <<in_flight_gauge, event_queue, unfinished_tasks, put_log>>
    /\ UNCHANGED <<requeued_at, requeued, final_failed>>

\* a stage returned a success value: log its success event and go on; after the
\* last stage count the success, log PIPELINE_SUCCESS, return True (finally: dec)
Succeeded(stage) ==
    /\ IF stage = "notify"
         THEN /\ log' = log \o <<SuccessTag(stage), "PIPELINE_SUCCESS">>
              /\ in_flight_gauge' = in_flight_gauge - 1
         ELSE /\ log' = Append(log, SuccessTag(stage))
              /\ UNCHANGED in_flight_gauge
    /\ UNCHANGED <<event_queue, unfinished_tasks, put_log, requeued_at, requeued,
                   final_failed>>

\* mutant of NoResult: the None outcome is requeued like an exception
NoResult_requeues(stage) ==
    /\ log' = Append(log, FailTag(stage))
    /\ in_flight_gauge' = in_flight_gauge - 1
    /\ requeue_transcript(cur)
    /\ requeued' = requeued + 1
    /\ UNCHANGED <<requeued_at, final_failed>>

\* mutant of NoResult: the early return leaves without the gauge's dec (no finally)
NoResult_keeps_gauge(stage) ==
    /\ log' = Append(log, FailTag(stage))
    /\ UNCHANGED <<in_flight_gauge, event_queue, unfinished_tasks, put_log,
                   requeued_at, requeued, final_failed>>

\* a stage returned None: log FAILED_*, return False (finally: dec)
NoResult(stage) ==
    /\ log' = Append(log, FailTag(stage))
    /\ in_flight_gauge' = in_flight_gauge - 1
    /\ UNCHANGED <<event_queue, unfinished_tasks, put_log, requeued_at, requeued,
                   final_failed>>

\* mutant of Raised: the final failure is logged as PIPELINE_FAILED_FINAL alone
\* (PIPELINE_ERROR is logged in the retry branch only)
Raised_logs_once ==
    /\ in_flight_gauge' = in_flight_gauge - 1
    /\ IF should_retry(cur, attempt)
         THEN /\ log' = Append(log, "PIPELINE_ERROR")
              /\ requeue_transcript(cur)
              /\ requeued_at' = [requeued_at EXCEPT ![cur] = attempt]
              /\ requeued' = requeued + 1
              /\ UNCHANGED final_failed
         ELSE /\ log' = Append(log, "PIPELINE_FAILED_FINAL")
              /\ final_failed' = final_failed \cup {cur}
              /\ UNCHANGED <<event_queue, unfinished_tasks, put_log, requeued_at,
                             requeued>>

\* except Exception: PIPELINE_ERROR, then requeue or PIPELINE_FAILED_FINAL,
\* return False (finally: dec)
Raised ==
    /\ in_flight_gauge' = in_flight_gauge - 1
    /\ IF should_retry(cur, attempt)
         THEN /\ log' = Append(log, "PIPELINE_ERROR")
              /\ requeue_transcript(cur)
              /\ requeued_at' = [requeued_at EXCEPT ![cur] = attempt]
              /\ requeued' = requeued + 1
              /\ UNCHANGED final_failed
         ELSE /\ log' = log \o <<"PIPELINE_ERROR", "PIPELINE_FAILED_FINAL">>
              /\ final_failed' = final_failed \cup {cur}
              /\ UNCHANGED <<event_queue, unfinished_tasks, put_log, requeued_at,
                             requeued>>

\* the module= argument of a stage's log events
StageModule(stage) ==
    CASE stage = "fetch" -> "fetcher"
      [] stage = "summarize" -> "assistant"
      [] stage = "document" -> "drive_documenter"
      [] OTHER -> "email_dispatcher"

\* mutant of ErrorModule: an exception is counted under the stage that raised
ErrorModule_by_stage(stage, r) == StageModule(stage)

\* the module label of the error_counter increment: the stage's module when
\* the stage returned None, 'orchestrator' in except Exception
ErrorModule(stage, r) == IF r = "none" THEN StageModule(stage) ELSE "orchestrator"

\* what process_transcript does with the outcome r of a stage call
Outcome(stage, r) ==
    /\ r = "exc" => CanRaise
    /\ raises' = IF r = "exc" THEN raises + 1 ELSE raises
    /\ success_counter' = IF r = "ok" /\ stage = "notify" THEN success_counter + 1
                                                           ELSE success_counter
    /\ error_counter' = IF r = "ok" THEN error_counter
                        ELSE [error_counter EXCEPT ![ErrorModule(stage, r)] = @ + 1]
    /\ trace' = Append(trace, <<stage, r>>)
    /\ pc' = NextPc(stage, r)
    /\ CASE r = "ok" -> Succeeded(stage)
         [] r = "none" -> NoResult(stage)
         [] OTHER -> Raised

\* data = self.fetcher.fetch_data(transcript_id)
Fetch ==
    /\ pc = "fetch"
    /\ \E outs \in UnderlyingCalls(Outcomes) :
          /\ Outcome("fetch", Tenacity(outs))
          /\ stage_calls' = TenacityCalls(outs)
          /\ call_outs' = TenacityTrace(outs)
    /\ UNCHANGED driveVars
    /\ UNCHANGED <<running, cur, attempt, now, signalled, runs, documented, csNotified,
                   amNotified, emails_sent, pollerPuts, gets, dones>>
    /\ UNCHANGED listenerVars
    /\ UNCHANGED config

\* summary = self.assistant.get_summary(data)
Summarize ==
    /\ pc = "summarize"
    /\ \E outs \in UnderlyingCalls(Outcomes) :
          /\ Outcome("summarize", Tenacity(outs))
          /\ stage_calls' = TenacityCalls(outs)
          /\ call_outs' = TenacityTrace(outs)
    /\ UNCHANGED driveVars
    /\ UNCHANGED <<running, cur, attempt, now, signalled, runs, documented, csNotified,
                   amNotified, emails_sent, pollerPuts, gets, dones>>
    /\ UNCHANGED listenerVars
    /\ UNCHANGED config

\* doc_links = self.drive_documenter.update_drive_docs(account_name, summary):
\* no retry wrapper; it returns the links after the log append or raises before
\* (what the call does to the Drive documents is the subject of DriveSpec)
Document ==
    /\ pc = "document"
    /\ \E r \in {"ok", "exc"} :
          /\ Outcome("document", r)
          /\ documented' = IF r = "ok" THEN documented \cup {cur} ELSE documented
          /\ call_outs' = <<r>>
    /\ UNCHANGED driveVars
    /\ stage_calls' = 1
    /\ UNCHANGED <<running, cur, attempt, now, signalled, runs, csNotified,
                   amNotified, emails_sent, pollerPuts, gets, dones>>
    /\ UNCHANGED listenerVars
    /\ UNCHANGED config

\* email_status = self.email_dispatcher.send_emails(data, summary, doc_links):
\* send_email to the CS address, then send_email to the AM address
Notify ==
    /\ pc = "notify"
    /\ \E cs_outs, am_outs \in UnderlyingCalls({"ok", "exc"}) :
          LET cs == Tenacity(cs_outs)
              am == IF cs = "ok" THEN Tenacity(am_outs) ELSE "exc"
          IN  /\ Outcome("notify", am)
              /\ csNotified' = IF cs = "ok" THEN csNotified \cup {cur} ELSE csNotified
              /\ amNotified' = IF am = "ok" THEN amNotified \cup {cur} ELSE amNotified
              /\ emails_sent' = (IF cs = "ok" THEN 1 ELSE 0) + (IF am = "ok" THEN 1 ELSE 0)
              /\ stage_calls' = IF cs = "ok" THEN TenacityCalls(am_outs)
                                             ELSE TenacityCalls(cs_outs)
              /\ call_outs' = IF cs = "ok" THEN TenacityTrace(am_outs)
                                           ELSE TenacityTrace(cs_outs)
    /\ UNCHANGED driveVars
    /\ UNCHANGED <<running, cur, attempt, now, signalled, runs, documented,
                   pollerPuts, gets, dones>>
    /\ UNCHANGED listenerVars
    /\ UNCHANGED config

\* ------------------------------------------------------ stop (main's finally)
Stop ==
    /\ pc = "stop"
    /\ running' = FALSE
    /\ pc' = "join"
    /\ UNCHANGED <<event_queue, unfinished_tasks, cur, attempt, log, trace,
                   in_flight_gauge, now, signalled, pollerPuts, put_log>>
    /\ UNCHANGED listenerVars
    /\ UNCHANGED workHist
    /\ UNCHANGED config

\* stop returns (after its last log line), main returns, the process exits
StopReturns ==
    /\ pc = "joined"
    /\ pc' = "stopped"
    /\ UNCHANGED <<event_queue, unfinished_tasks, running, cur, attempt, log, trace,
                   in_flight_gauge, now, signalled, pollerPuts, put_log>>
    /\ UNCHANGED listenerVars
    /\ UNCHANGED workHist
    /\ UNCHANGED config

\* self.event_queue.join() returns
Join ==
    /\ pc = "join"
    /\ JoinReturns(unfinished_tasks)
    /\ pc' = "joined"
    /\ UNCHANGED <<event_queue, unfinished_tasks, running, cur, attempt, log, trace,
                   in_flight_gauge, now, signalled, pollerPuts, put_log>>
    /\ UNCHANGED listenerVars
    /\ UNCHANGED workHist
    /\ UNCHANGED config

\* ------------------------------------------------------------ GongListener
\* the listener is a daemon thread: it lives until main returns
Alive == pc # "stopped"

\* mutant of first_next_run: the comparison is <=, so that a start exactly at
\* the scheduled time runs today
first_next_run_at_or_before(n) ==
    LET scheduled_today == (n \div DayTicks) * DayTicks + RunAt
    IN  IF n <= scheduled_today THEN scheduled_today ELSE scheduled_today + DayTicks

\* scheduled_today if now < scheduled_today else scheduled_today + timedelta(days=1)
first_next_run(n) ==
    LET scheduled_today == (n \div DayTicks) * DayTicks + RunAt
    IN  IF n < scheduled_today THEN scheduled_today ELSE scheduled_today + DayTicks

\* mutant of sleep_seconds: the remaining time is not capped by the idle
\* increment, the listener sleeps until the next run
sleep_seconds_uncapped(n, nr) == Max(nr - n, 1)

\* max(min((next_run - now).total_seconds(), self._idle_sleep_seconds), 1)
sleep_seconds(n, nr) == Max(Min(nr - n, IdleTicks), 1)

\* mutant of next_day: the next run is recomputed from the wall clock
next_day_from_now(nr, n) == n + DayTicks

\* next_run += timedelta(days=1)
next_day(nr, n) == nr + DayTicks

\* mutant of poll_gong_transcripts: raise_for_status is not called, a failed
\* response is parsed like any other
poll_gong_transcripts_unchecked(failed, n) == n

\* GongListener.poll_gong_transcripts: the number of rows it returns, n rows of
\* the response, or [] when the request failed (except RequestException)
poll_gong_transcripts(failed, n) == IF failed THEN 0 ELSE n

\* mutant of error_wake: the handler does not sleep (a tight error loop)
error_wake_at_once(n) == n

\* except Exception: time.sleep(30): the clock value at which the sleep returns
error_wake(n) == n + ErrSleepTicks

\* mutant of IsNew: the seen set is not consulted
IsNew_unchecked(transcript_id, seen) == transcript_id # NoId

\* the condition under which a row is enqueued
IsNew(transcript_id, seen) == transcript_id # NoId /\ transcript_id \notin seen

\* GongListener.__init__ and the head of start_listening
ListenerStart ==
    /\ Alive
    /\ lpc = "start"
    /\ lrunning' = TRUE
    /\ processed_ids' = {}
    /\ next_run' = first_next_run(now)
    /\ first_run' = first_next_run(now)
    /\ started_at' = now
    /\ lpc' = "loop"
    /\ UNCHANGED <<event_queue, unfinished_tasks, wake, new_rows, now, failed_for,
                   signalled, pollerPuts, put_log>>
    /\ UNCHANGED mainVars
    /\ UNCHANGED workHist
    /\ UNCHANGED config

\* one test of the while condition: leave, sleep, or poll. The discovery
\* request fails or answers with 0..MaxRows rows; new_rows holds how many rows
\* are still to be iterated, and what each row holds is drawn when the for loop
\* reaches it
ListenerLoop ==
    /\ Alive
    /\ lpc = "loop"
    /\ IF ~lrunning
         THEN /\ lpc' = "exited"
              /\ UNCHANGED <<wake, new_rows, failed_for>>
         ELSE IF now < next_run
           THEN /\ wake' = now + sleep_seconds(now, next_run)
                /\ lpc' = "sleep"
                /\ UNCHANGED <<new_rows, failed_for>>
           ELSE /\ \E failed \in BOOLEAN, n \in 0..MaxRows :
                      /\ new_rows' = poll_gong_transcripts(failed, n)
                      /\ failed_for' = IF failed THEN failed_for \cup {next_run}
                                                 ELSE failed_for
                /\ lpc' = "rows"
                /\ UNCHANGED wake
    /\ UNCHANGED <<event_queue, unfinished_tasks, lrunning, processed_ids, next_run,
                   now, started_at, first_run, signalled, pollerPuts, put_log>>
    /\ UNCHANGED mainVars
    /\ UNCHANGED workHist
    /\ UNCHANGED config

\* one iteration of for row in new_rows, or the end of the loop body
\* (next_run += timedelta(days=1)); a row on which row.get raises sends the
\* thread to except Exception: time.sleep(30)
ListenerRow ==
    /\ Alive
    /\ lpc = "rows"
    /\ IF new_rows = 0
         THEN /\ next_run' = next_day(next_run, now)
              /\ lpc' = "loop"
              /\ UNCHANGED <<event_queue, unfinished_tasks, processed_ids, wake,
                             new_rows, pollerPuts, put_log>>
         ELSE \E transcript_id \in RowValues :
              IF transcript_id = BadRow
                THEN /\ wake' = error_wake(now)
                     /\ lpc' = "sleep"
                     /\ new_rows' = 0
                     /\ UNCHANGED <<event_queue, unfinished_tasks, processed_ids,
                                    next_run, pollerPuts, put_log>>
                ELSE /\ new_rows' = new_rows - 1
                     /\ UNCHANGED <<lpc, next_run, wake>>
                     /\ IF IsNew(transcript_id, processed_ids)
                          THEN /\ event_queue' = put(event_queue, transcript_id)
                               /\ unfinished_tasks' = unfinished_tasks + 1
                               /\ processed_ids' = processed_ids \cup {transcript_id}
                               /\ pollerPuts' = [pollerPuts EXCEPT ![transcript_id] = @ + 1]
                               /\ put_log' = Append(put_log, transcript_id)
                          ELSE UNCHANGED <<event_queue, unfinished_tasks,
                                           processed_ids, pollerPuts, put_log>>
    /\ UNCHANGED <<lrunning, now, started_at, first_run, failed_for, signalled>>
    /\ UNCHANGED mainVars
    /\ UNCHANGED workHist
    /\ UNCHANGED config

\* time.sleep returns
ListenerWake ==
    /\ Alive
    /\ lpc = "sleep"
    /\ now >= wake
    /\ lpc' = "loop"
    /\ wake' = 0
    /\ UNCHANGED <<event_queue, unfinished_tasks, lrunning, processed_ids, next_run,
                   new_rows, now, started_at, first_run, failed_for, signalled,
                   pollerPuts, put_log>>
    /\ UNCHANGED mainVars
    /\ UNCHANGED workHist
    /\ UNCHANGED config

\* the wall clock advances
Tick ==
    /\ Alive
    /\ now < MaxNow
    /\ now' = now + 1
    /\ UNCHANGED <<event_queue, unfinished_tasks, signalled, pollerPuts, put_log>>
    /\ UNCHANGED mainVars
    /\ UNCHANGED listenerVars
    /\ UNCHANGED workHist
    /\ UNCHANGED config

\* the main thread: start, the worker loop, process_transcript, stop
MainNext ==
    \/ Start
    \/ WorkerGet
    \/ WorkerEmpty
    \/ WorkerExit
    \/ ProcessEnter
    \/ Fetch
    \/ Summarize
    \/ Document
    \/ Notify
    \/ TaskDone
    \/ Stop
    \/ Join
    \/ StopReturns

\* the listener thread
ListenerNext ==
    \/ ListenerStart
    \/ ListenerLoop
    \/ ListenerRow
    \/ ListenerWake

Next ==
    \/ MainNext
    \/ ListenerNext
    \/ Signal
    \/ Tick

Spec == Init /\ [][Next]_vars

\* the same program under either kind of MAX_RETRIES setting: a limit of one
\* attempt (no attempt is below the limit) and the default
RetryLimits == {1, MAX_RETRIES}

ConfigInit == \E limit \in RetryLimits : InitWith(limit)

ConfigSpec == ConfigInit /\ [][Next]_vars

\* ------------------------------------------------- the worker on its own
\* the orders in which one poll cycle can have put all the identifiers
QueueOrders == {q \in [1..NumIds -> Ids] : \A i, j \in 1..NumIds : q[i] = q[j] => i = j}

\* a state of Spec: start() was called at tick 0, the listener's first cycle
\* (at RunAt) found every identifier and put it, the next run is a day away and
\* the listener sleeps; the worker has not taken anything yet
LiveInit ==
    /\ event_queue \in QueueOrders
    /\ unfinished_tasks = NumIds
    /\ running = TRUE
    /\ max_retries \in RetryLimits
    /\ pc = "loop"
    /\ cur = NoId
    /\ attempt = 0
    /\ log = <<>>
    /\ trace = <<>>
    /\ in_flight_gauge = 0
    /\ lrunning = TRUE
    /\ lpc = "sleep"
    /\ processed_ids = Ids
    /\ next_run = next_day(first_next_run(0), RunAt)
    /\ wake = RunAt + sleep_seconds(RunAt, next_day(first_next_run(0), RunAt))
    /\ new_rows = 0
    /\ now = RunAt
    /\ started_at = 0
    /\ first_run = first_next_run(0)
    /\ failed_for = {}
    /\ signalled = FALSE
    /\ runs = [i \in Ids |-> 0]
    /\ requeued_at = [i \in Ids |-> 0]
    /\ requeued = 0
    /\ final_failed = {}
    /\ documented = {}
    /\ csNotified = {}
    /\ amNotified = {}
    /\ emails_sent = 0
    /\ pollerPuts = [i \in Ids |-> 1]
    /\ put_log = event_queue
    /\ stage_calls = 0
    /\ call_outs = <<>>
    /\ success_counter = 0
    /\ error_counter = [m \in Modules |-> 0]
    /\ drive = [clients_folders |-> 0, account_folders |-> 0, call_docs |-> 0,
                call_text |-> <<>>, log_docs |-> 0, log_text |-> <<>>]
    /\ doc_calls = <<>>
    /\ doc_returned = TRUE
    /\ gets = 0
    /\ dones = 0
    /\ raises = 0

\* run_pipeline_worker while the flag stays set: the steps of the main thread
\* between start() and the end of the loop
WorkerNext ==
    \/ WorkerGet
    \/ WorkerEmpty
    \/ ProcessEnter
    \/ Fetch
    \/ Summarize
    \/ Document
    \/ Notify
    \/ TaskDone

\* the worker alone, no signal and no further poll; the main thread is
\* scheduled (it is the process's foreground thread) and every stage call
\* returns or raises, so a step the worker can take is taken
LiveSpec == LiveInit /\ [][WorkerNext]_vars /\ WF_vars(WorkerNext)

\* ---------------------------------------------------- GoogleDriveDocumenter
\* the steps of update_drive_docs that call the Drive or Docs API, in order
\* (overwrite_doc is two requests: deleteContentRange, then insertText)
DriveSteps == <<"clients_folder", "account_folder", "call_doc", "delete", "insert",
                "log_doc", "append">>

\* the summary text of a transcript, as document content
SummaryText(transcript_id) == <<transcript_id>>

\* log_entry = f"\n--- {timestamp} ---\n{summary}\n": the header, then the summary
log_entry(summary) == <<EntryMark>> \o summary

\* doc['body']['content'][-1]['endIndex'] of a document holding text: the text
\* starts at index 1 and is followed by the body's final newline
endIndex(text) == Len(text) + 2

\* deleteContentRange: remove the indices startIndex .. endIndex_ - 1
deleteContentRange(text, startIndex, endIndex_) ==
    SubSeq(text, 1, startIndex - 1) \o SubSeq(text, endIndex_, Len(text))

\* insertText: put content in front of the character at index
insertText(text, index, content) ==
    SubSeq(text, 1, index - 1) \o content \o SubSeq(text, index, Len(text))

\* get_or_create_*: files().list, then files().create only when nothing is
\* found; the number of items of that name afterwards
get_or_create(items) == IF items > 0 THEN items ELSE items + 1

\* mutant of overwrite_delete: the old content is left in place
overwrite_delete_skipped(text) == text

\* overwrite_doc, first request: delete all content
overwrite_delete(text) ==
    LET end_index == endIndex(text) - 1
    IN  IF end_index > 1 THEN deleteContentRange(text, 1, end_index) ELSE text

\* overwrite_doc, second request: insert the new content at index 1
overwrite_insert(text, content) == insertText(text, 1, content)

\* append_to_doc: insert at the end index of the document
append_to_doc(text, content) == insertText(text, endIndex(text) - 1, content)

\* the effect of one step of update_drive_docs on the account's Drive state
DriveStep(d, step, summary) ==
    CASE step = "clients_folder" -> [d EXCEPT !.clients_folders = get_or_create(@)]
      [] step = "account_folder" -> [d EXCEPT !.account_folders = get_or_create(@)]
      [] step = "call_doc" -> [d EXCEPT !.call_docs = get_or_create(@)]
      [] step = "delete" -> [d EXCEPT !.call_text = overwrite_delete(@)]
      [] step = "insert" -> [d EXCEPT !.call_text = overwrite_insert(@, summary)]
      [] step = "log_doc" -> [d EXCEPT !.log_docs = get_or_create(@)]
      [] OTHER -> [d EXCEPT !.log_text = append_to_doc(@, log_entry(summary))]

\* the steps i .. last of update_drive_docs
RECURSIVE DriveRun(_, _, _, _)
DriveRun(d, i, last, summary) ==
    IF i > last THEN d
                ELSE DriveRun(DriveStep(d, DriveSteps[i], summary), i + 1, last, summary)

\* GoogleDriveDocumenter.update_drive_docs: the request of step fails_at
\* raises (except: raise), the steps before it have taken effect;
\* fails_at = Len(DriveSteps) + 1: no request raises
update_drive_docs(d, summary, fails_at) == DriveRun(d, 1, fails_at - 1, summary)

\* the variables update_drive_docs leaves alone
pipelineVars == <<event_queue, unfinished_tasks, running, max_retries, pc, cur, attempt, log, trace,
                  in_flight_gauge, lrunning, lpc, processed_ids, next_run, wake,
                  new_rows, now, started_at, first_run, failed_for, signalled, runs,
                  requeued_at, requeued, final_failed, documented, csNotified,
                  amNotified, emails_sent, pollerPuts, put_log, gets, dones, raises,
                  stage_calls, call_outs, success_counter, error_counter>>

\* an empty Drive, before the first call
DriveInit == Init /\ now = 0

\* one call update_drive_docs(account_name, summary) for the account, with the
\* summary of any transcript; any of its requests may raise
DriveCall ==
    /\ Len(doc_calls) < MaxDocCalls
    /\ \E transcript_id \in Ids, fails_at \in 1..(Len(DriveSteps) + 1) :
          /\ drive' = update_drive_docs(drive, SummaryText(transcript_id), fails_at)
          /\ doc_returned' = (fails_at > Len(DriveSteps))
          /\ doc_calls' = IF fails_at > Len(DriveSteps)
                            THEN Append(doc_calls, SummaryText(transcript_id))
                            ELSE doc_calls
    /\ UNCHANGED pipelineVars

DriveNext == DriveCall

DriveSpec == DriveInit /\ [][DriveNext]_vars

\* ------------------------------------------------------------------ helpers
Range(f) == {f[i] : i \in DOMAIN f}
StagePcs == {"fetch", "summarize", "document", "notify"}
FailureTags == {"FAILED_FETCH", "FAILED_OAI", "PIPELINE_ERROR", "PIPELINE_FAILED_FINAL"}
TagCount(lg, tags) == Cardinality({i \in DOMAIN lg : lg[i] \in tags})
LastOutcome == IF trace = <<>> THEN "-" ELSE trace[Len(trace)][2]

\* ------------------------------------------------------------------ claims
\* C1: an exception at attempt k < max_retries puts exactly one copy of the
\* identifier back and the identifier's next run has attempt = k + 1; at
\* k = max_retries nothing is put back and PIPELINE_FAILED_FINAL is logged.
C1_RequeueCarriesAttempt ==
    /\ (pc = "task_done" /\ LastOutcome = "exc" /\ attempt < max_retries)
          => requeued = 1
    /\ (pc = "task_done" /\ LastOutcome = "exc" /\ attempt = max_retries)
          => (requeued = 0 /\ "PIPELINE_FAILED_FINAL" \in Range(log))
    /\ (pc = "fetch" /\ requeued_at[cur] > 0)
          => attempt = requeued_at[cur] + 1

\* C2: an identifier is run at most max_retries times, and the run numbered
\* max_retries that raises marks it FAILED-final and leaves it out of the queue
\* (an identifier is run again only after a run that raised).
C2_RetryBounded ==
    /\ \A id \in Ids : runs[id] <= max_retries
    /\ (pc = "task_done" /\ LastOutcome = "exc" /\ runs[cur] >= max_retries)
          => (cur \in final_failed /\ cur \notin Range(event_queue))

\* C3: when fetch or summarize returns None, the attempt logs exactly one
\* failure event (the stage's FAILED tag), invokes no later stage, and does
\* not put the identifier back on the queue.
C3_NoResultIsFinal ==
    \A i \in DOMAIN trace :
        trace[i][2] = "none" =>
            /\ i = Len(trace)
            /\ pc = "task_done"
            /\ TagCount(log, FailureTags) = 1
            /\ log[Len(log)] = FailTag(trace[i][1])
            /\ requeued = 0
            /\ cur \notin Range(event_queue)

\* C3 witness: summarize returned None after a successful fetch
C3_Witness ==
    /\ pc = "task_done"
    /\ trace = <<(<<"fetch", "ok">>), (<<"summarize", "none">>)>>

\* C4: after a termination signal the shutdown sequence returns: the main
\* thread is never blocked before stop() has returned (only the main thread
\* marks items done, so a join that blocks with the worker gone never returns),
\* and when stop() has returned no item is queued or in flight.
C4_ShutdownReturns ==
    /\ signalled => (pc = "stopped" \/ ENABLED MainNext)
    /\ pc = "stopped" => (event_queue = <<>> /\ cur = NoId)

\* C5: stop() never returns while an item is outstanding (queued and not yet
\* dequeued, or dequeued and not yet marked done).
C5_DrainToEmpty ==
    pc = "stopped" => (event_queue = <<>> /\ cur = NoId /\ unfinished_tasks = 0)

\* C6: the signal clears the flag the listener's loop tests, so that once the
\* signal has been delivered the listener puts no further identifier on the
\* queue.
C6_SignalStopsIntake ==
    [][signalled => pollerPuts' = pollerPuts]_vars

\* the steps in which the document stage completes, and in which the CS and
\* the AM email of the identifier in hand are sent
DocumentCompletes == pc = "document" /\ trace' = Append(trace, <<"document", "ok">>)
CsEmailSent == pc = "notify" /\ emails_sent' >= 1
AmEmailSent == pc = "notify" /\ emails_sent' = 2

\* C7 as claimed: over all attempts of one identifier the document stage
\* completes at most once and each recipient is notified at most once.
C7_OncePerIdentifier ==
    [][/\ DocumentCompletes => cur \notin documented
       /\ CsEmailSent => cur \notin csNotified
       /\ AmEmailSent => cur \notin amNotified]_vars

\* C7 as amended: within one attempt the document stage completes at most once
\* and each recipient is notified at most once; over the attempts of one
\* identifier the AM recipient is notified at most once, and the document
\* stage completes again, or the CS recipient is notified again, only in an
\* attempt that follows a requeue of that identifier.
C7_OncePerAttempt ==
    [][/\ DocumentCompletes =>
             /\ \A i \in DOMAIN trace : trace[i][1] # "document"
             /\ cur \in documented => requeued_at[cur] > 0
       /\ CsEmailSent =>
             /\ emails_sent = 0
             /\ cur \in csNotified => requeued_at[cur] > 0
       /\ AmEmailSent => cur \notin amNotified]_vars

\* C7 witness: a second attempt is about to notify again an identifier whose
\* CS email went out in its first attempt
C7_Witness ==
    /\ pc = "notify"
    /\ runs[cur] = 2
    /\ cur \in csNotified
    /\ cur \in documented
    /\ cur \notin amNotified

\* C8: the listener puts each identifier on the queue at most once, and an
\* identifier is in the seen set exactly when the listener has put it.
C8_PollerDedup ==
    \A id \in Ids :
        /\ pollerPuts[id] <= 1
        /\ pollerPuts[id] = 1 <=> id \in processed_ids

\* C8 witness: a later poll is iterating rows when every identifier is already
\* in the seen set, so that the row it takes next is one seen before
C8_Witness ==
    /\ lpc = "rows"
    /\ new_rows > 0
    /\ processed_ids = Ids
    /\ next_run >= RunAt + DayTicks

\* C9: the stage calls of an attempt are a prefix of fetch, summarize,
\* document, notify (in order, each at most once), every call but the last
\* returned a success value, the stage about to be called is the next in
\* order, and PIPELINE_SUCCESS is logged only after four successful calls.
C9_StageOrder ==
    /\ Len(trace) <= Len(StageOrder)
    /\ \A i \in DOMAIN trace : trace[i][1] = StageOrder[i]
    /\ \A i \in DOMAIN trace : i < Len(trace) => trace[i][2] = "ok"
    /\ pc \in StagePcs =>
          /\ Len(trace) < Len(StageOrder)
          /\ pc = StageOrder[Len(trace) + 1]
          /\ LastOutcome \in {"-", "ok"}
    /\ "PIPELINE_SUCCESS" \in Range(log) =>
          /\ Len(trace) = Len(StageOrder)
          /\ \A i \in DOMAIN trace : trace[i][2] = "ok"

\* C9 witness: an attempt reported PIPELINE_SUCCESS
C9_Witness ==
    /\ pc = "task_done"
    /\ "PIPELINE_SUCCESS" \in Range(log)

\* C10: whatever the outcome of a stage, process_transcript returns to the
\* worker, which marks the dequeued item done exactly once before it takes
\* another: outside an attempt every get has had its task_done, inside an
\* attempt exactly one get is still open.
C10_AlwaysMarkedDone ==
    /\ pc \in {"loop", "stop", "join", "joined", "stopped"} =>
          (dones = gets /\ cur = NoId)
    /\ pc \in StagePcs \cup {"process", "task_done"} =>
          (dones + 1 = gets /\ cur \in Ids)
    /\ unfinished_tasks = Len(event_queue) + (gets - dones)

\* C10 witness: the worker is back at its loop after an attempt that raised
\* and one that did not
C10_Witness ==
    /\ pc = "loop"
    /\ running
    /\ dones = 2
    /\ raises = 1

\* C11: at most one pipeline execution is in flight: the identifiers dequeued and
\* not yet marked done number 0 or 1 (by the worker's count and by the queue's
\* own accounting), the in-flight gauge is 0 or 1, and a stage call is made
\* only for the one identifier in hand.
C11_SingleFlight ==
    /\ gets - dones \in {0, 1}
    /\ unfinished_tasks - Len(event_queue) \in {0, 1}
    /\ in_flight_gauge \in {0, 1}
    /\ (gets - dones = 1) <=> (cur \in Ids)
    /\ pc \in StagePcs => (cur \in Ids /\ gets - dones = 1)

\* C11 witness: a requeued identifier is in a stage call while the listener has
\* put another identifier, which waits in the queue
C11_Witness ==
    /\ pc \in StagePcs
    /\ requeued_at[cur] > 0
    /\ \E id \in Ids : id # cur /\ pollerPuts[id] = 1 /\ id \in Range(event_queue)

\* C12: the in-flight gauge is never negative, is one above its value before the
\* call (0) while process_transcript runs its stages, and is back at that value
\* whenever process_transcript is not running, whatever the exit path.
C12_GaugeBalanced ==
    /\ in_flight_gauge >= 0
    /\ pc \in StagePcs => in_flight_gauge = 1
    /\ pc \notin StagePcs => in_flight_gauge = 0

\* C12 witness: process_transcript has returned through the exception path
\* with a requeue
C12_Witness ==
    /\ pc = "task_done"
    /\ LastOutcome = "exc"
    /\ requeued = 1
    /\ in_flight_gauge = 0

\* the listener has computed its first next_run
ListenerStarted == lpc \notin {"off", "start"}

\* C13: the first next run is today's scheduled time when the listener starts
\* before it, and tomorrow's when it starts at or after it.
C13_FirstRun ==
    ListenerStarted =>
        LET midnight == started_at - (started_at % DayTicks)
        IN  /\ started_at < midnight + RunAt => first_run = midnight + RunAt
            /\ started_at >= midnight + RunAt => first_run = midnight + DayTicks + RunAt

\* C13 witness: the listener started after today's scheduled time
C13_Witness ==
    /\ ListenerStarted
    /\ started_at % DayTicks > RunAt
    /\ next_run = first_run

\* C14 as claimed: after every firing (every cycle in which the discovery call
\* was made) the next-run time is one day later than before.
C14_EveryFiringAdvances ==
    [][(lpc = "rows" /\ lpc' # "rows") => next_run' = next_run + DayTicks]_vars

\* C14 as amended: a firing that completes advances the next-run time by
\* exactly one day; a firing in which processing the rows raises leaves it
\* unchanged (the poll is repeated after the error sleep); the next-run time
\* changes in no other step, so that it stays at the scheduled time of day.
C14_CompletedFiringAdvances ==
    [][ListenerStarted =>
          /\ (lpc = "rows" /\ lpc' = "loop") => next_run' = next_run + DayTicks
          /\ (lpc = "rows" /\ lpc' = "sleep") => next_run' = next_run
          /\ lpc # "rows" => next_run' = next_run
          /\ next_run' % DayTicks = RunAt]_vars

\* C14 witness: the first firing completed, and a second firing, for the next
\* day's run, raised and is in its error sleep
C14_Witness ==
    /\ lpc = "sleep"
    /\ now >= next_run
    /\ next_run = first_run + DayTicks

\* C15: a failed discovery call yields no rows; the cycle then ends with no
\* put by the listener, the listener back at its loop and the next-run time
\* one day later; and no discovery call is made for a run time whose call failed.
C15_FailedPollIsEmptyCycle ==
    [][/\ (lpc' = "rows" /\ next_run' \in failed_for') => new_rows' = 0
       /\ (lpc = "rows" /\ next_run \in failed_for /\ lpc' # "rows") =>
             /\ lpc' = "loop"
             /\ next_run' = next_run + DayTicks
             /\ pollerPuts' = pollerPuts
             /\ processed_ids' = processed_ids
       /\ (lpc = "loop" /\ lpc' = "rows") => next_run \notin failed_for]_vars

\* C15 witness: the cycle of a failed discovery call has ended and the listener
\* sleeps until the next scheduled run
C15_Witness ==
    /\ lpc = "sleep"
    /\ next_run - DayTicks \in failed_for
    /\ now < next_run

\* C16: when the underlying call of a stage raises, the stage call is attempted
\* StopAfterAttempt (3) times before the exception reaches process_transcript,
\* and no stage call is attempted more often than that.
C16_EveryStageRetried ==
    /\ stage_calls <= StopAfterAttempt
    /\ (pc = "task_done" /\ LastOutcome = "exc") => stage_calls = StopAfterAttempt

\* the step that ends an attempt, and whether the attempt ends in PIPELINE_SUCCESS
AttemptEnds == pc \in StagePcs /\ pc' = "task_done"
EndsInSuccess == "PIPELINE_SUCCESS" \in Range(log')

\* C17 as claimed: a successful attempt adds 1 to the success counter and leaves
\* the error counters alone; a failed attempt adds 1 to the error counter
\* labelled with the module of the failing stage, and to nothing else.
C17_ErrorsByFailingModule ==
    [][AttemptEnds =>
          IF EndsInSuccess
            THEN /\ success_counter' = success_counter + 1
                 /\ error_counter' = error_counter
            ELSE /\ success_counter' = success_counter
                 /\ error_counter' =
                       [error_counter EXCEPT ![StageModule(pc)] = @ + 1]]_vars

\* C17 as amended: a successful attempt adds 1 to the success counter and leaves
\* the error counters alone; a failed attempt leaves the success counter alone
\* and adds 1 to exactly one error counter: the one labelled with the stage's
\* module (fetcher, assistant) when the stage returned None, the one labelled
\* 'orchestrator' when a stage raised, whichever stage it was; no other step
\* changes a counter.
C17_ErrorsByHandler ==
    [][IF AttemptEnds
         THEN IF EndsInSuccess
                THEN /\ success_counter' = success_counter + 1
                     /\ error_counter' = error_counter
                ELSE /\ success_counter' = success_counter
                     /\ error_counter' =
                           [error_counter EXCEPT
                              ![IF trace'[Len(trace')][2] = "none"
                                  THEN StageModule(pc) ELSE "orchestrator"] = @ + 1]
         ELSE /\ success_counter' = success_counter
              /\ error_counter' = error_counter]_vars

\* C17 witness: one attempt failed on a None summary and one on an exception
C17_Witness ==
    /\ error_counter["assistant"] = 1
    /\ error_counter["orchestrator"] = 1
    /\ pc = "task_done"
    /\ "PIPELINE_SUCCESS" \in Range(log)

\* the entries of a Summary Log text, each without its header
RECURSIVE LogEntries(_)
LogEntries(text) ==
    IF text = <<>> THEN <<>>
    ELSE LET rest == Tail(text)
             marks == {i \in DOMAIN rest : rest[i] = EntryMark}
             nxt == IF marks = {} THEN Len(rest) + 1
                                  ELSE CHOOSE i \in marks : \A j \in marks : i <= j
         IN  <<SubSeq(rest, 1, nxt - 1)>> \o LogEntries(SubSeq(rest, nxt, Len(rest)))

\* C18: after n calls of update_drive_docs for the account have returned there
\* is exactly one account folder, one Call Summary document, whose content is
\* the summary of the last call alone, and one Summary Log document, whose
\* entries are the n summaries in call order (a call that raised added no
\* entry; folders and documents are never duplicated).
C18_DriveIdempotent ==
    /\ drive.clients_folders <= 1
    /\ drive.account_folders <= 1
    /\ drive.call_docs <= 1
    /\ drive.log_docs <= 1
    /\ LogEntries(drive.log_text) = doc_calls
    /\ doc_calls # <<>> =>
          /\ drive.account_folders = 1
          /\ drive.call_docs = 1
          /\ drive.log_docs = 1
    /\ (doc_calls # <<>> /\ doc_returned) =>
          drive.call_text = doc_calls[Len(doc_calls)]

\* C18 witness: three calls have returned, the last two with different summaries
C18_Witness ==
    /\ Len(doc_calls) = 3
    /\ doc_returned
    /\ doc_calls[2] # doc_calls[3]

\* C19: once the signal has been delivered, an attempt in hand is not
\* interrupted: every step keeps the identifier in hand and stays inside
\* process_transcript until task_done marks it done, and the worker loop is
\* left only from its loop test, with nothing in hand and every get marked done.
C19_CooperativeCancel ==
    [][/\ (signalled' /\ cur # NoId) =>
             \/ (pc' \in StagePcs \cup {"process", "task_done"} /\ cur' = cur)
             \/ (pc = "task_done" /\ pc' = "loop" /\ dones' = dones + 1 /\ cur' = NoId)
       /\ (pc # "stop" /\ pc' = "stop") =>
             (pc = "loop" /\ cur = NoId /\ dones = gets)]_vars

\* C19 witness: the signal arrived while an identifier was in flight (no get is
\* made once the flag is clear) and its attempt went on through all four stages
C19_Witness ==
    /\ signalled
    /\ pc = "task_done"
    /\ Len(trace) = Len(StageOrder)
    /\ LastOutcome = "ok"

\* C20: the queue is FIFO: it holds exactly the identifiers put and not yet
\* taken, in the order of the puts (none lost, none twice), the identifier in
\* hand is the one whose put was the oldest not yet taken, and so a requeued
\* identifier waits behind every identifier that was waiting when it was put.
C20_Fifo ==
    /\ gets <= Len(put_log)
    /\ event_queue = SubSeq(put_log, gets + 1, Len(put_log))
    /\ cur # NoId => cur = put_log[gets]
    /\ Len(put_log) = unfinished_tasks + dones

\* C20 witness: the worker holds an identifier that it requeued behind one the
\* listener had put while the attempt ran
C20_Witness ==
    /\ pc = "task_done"
    /\ requeued = 1
    /\ Len(event_queue) = 2
    /\ event_queue[2] = cur
    /\ event_queue[1] # cur

\* C21: inside a retry wrapper a None result is not retried: every underlying
\* call made before the last one of a stage call raised, so a call that returned
\* None (or a value) was the last, and the wrapper made no call after it; when
\* the wrapped stage returned None, its last underlying call returned None.
C21_NoDataNotRetried ==
    /\ Len(call_outs) = stage_calls
    /\ \A i \in 1..Len(call_outs) : i < Len(call_outs) => call_outs[i] = "exc"
    /\ (pc = "task_done" /\ LastOutcome = "none") => call_outs[Len(call_outs)] = "none"

\* C21 witness: the underlying call raised once and then returned None, and the
\* wrapper returned None after that second call
C21_Witness ==
    /\ pc = "task_done"
    /\ LastOutcome = "none"
    /\ call_outs = <<"exc", "none">>

\* the number of stages of the attempt in hand that returned a success value
CompletedStages == Cardinality({i \in DOMAIN trace : trace[i][2] = "ok"})

\* the attempt in hand has logged PROCESSING_STARTED and then one success event
\* for each stage that completed, in the order of the stages
StartedThenStageEvents ==
    /\ Len(log) >= 1 + CompletedStages
    /\ log[1] = "PROCESSING_STARTED"
    /\ \A i \in 1..CompletedStages :
          /\ trace[i] = <<StageOrder[i], "ok">>
          /\ log[i + 1] = SuccessTag(StageOrder[i])

\* the events of the attempt in hand that follow its stage success events
TerminalEvents == SubSeq(log, CompletedStages + 2, Len(log))

\* C22 as claimed: an attempt logs PROCESSING_STARTED, one success event per
\* completed stage in stage order, and exactly one event for its terminal
\* outcome: PIPELINE_SUCCESS, FAILED_* for a stage that returned None,
\* PIPELINE_ERROR for a requeued error, PIPELINE_FAILED_FINAL for a final failure.
C22_OneEventPerOutcome ==
    /\ pc \in StagePcs \cup {"task_done"} => StartedThenStageEvents
    /\ pc \in StagePcs => TerminalEvents = <<>>
    /\ pc = "task_done" =>
          TerminalEvents =
              CASE LastOutcome = "ok" -> <<"PIPELINE_SUCCESS">>
                [] LastOutcome = "none" -> <<FailTag(trace[Len(trace)][1])>>
                [] OTHER -> IF requeued = 1 THEN <<"PIPELINE_ERROR">>
                                            ELSE <<"PIPELINE_FAILED_FINAL">>

\* C22 as the code has it: the same, except that a final failure logs two
\* events, PIPELINE_ERROR and then PIPELINE_FAILED_FINAL.
C22_EventsPerOutcome ==
    /\ pc \in StagePcs \cup {"task_done"} => StartedThenStageEvents
    /\ pc \in StagePcs => TerminalEvents = <<>>
    /\ pc = "task_done" =>
          TerminalEvents =
              CASE LastOutcome = "ok" -> <<"PIPELINE_SUCCESS">>
                [] LastOutcome = "none" -> <<FailTag(trace[Len(trace)][1])>>
                [] OTHER -> IF requeued = 1
                              THEN <<"PIPELINE_ERROR">>
                              ELSE <<"PIPELINE_ERROR", "PIPELINE_FAILED_FINAL">>

\* C22 witness: with a limit of one attempt, an attempt whose first two stages
\* completed failed for good in the document stage
C22_Witness ==
    /\ pc = "task_done"
    /\ CompletedStages = 2
    /\ LastOutcome = "exc"
    /\ requeued = 0
    /\ cur \in final_failed

\* the identifiers taken from the queue and not yet marked done
InHand == IF cur # NoId THEN 1 ELSE 0

\* C23: the queue's outstanding count is the number of waiting identifiers plus
\* the one taken and not yet marked done; every get is matched by one task_done
\* before the next get; the requeue put is counted while the failing attempt is
\* still unmarked, so the count is at least 2 then and never 0 while an
\* identifier waits or is in hand.
C23_QueueAccounting ==
    /\ unfinished_tasks = Len(event_queue) + InHand
    /\ gets = dones + InHand
    /\ pc = "task_done" => (InHand = 1 /\ unfinished_tasks >= 1 + requeued)
    /\ unfinished_tasks = 0 => (event_queue = <<>> /\ cur = NoId)

\* C23 witness: the failing attempt was marked done and the outstanding count
\* is still 1, for the retry that waits in the queue
C23_Witness ==
    /\ pc = "loop"
    /\ cur = NoId
    /\ dones = 1
    /\ raises = 1
    /\ unfinished_tasks = 1
    /\ Len(event_queue) = 1
    /\ requeued_at[event_queue[1]] = 1

\* C24: an identifier reaches PIPELINE_SUCCESS at most once: the attempt that
\* succeeds is the first success of its identifier and puts nothing back, and an
\* identifier that has succeeded is never put on the queue again, neither by a
\* requeue nor by the listener, and never starts another attempt.
C24_SuccessAtMostOnce ==
    [][/\ (AttemptEnds /\ EndsInSuccess) =>
              /\ cur \notin amNotified
              /\ success_counter' = Cardinality(amNotified) + 1
              /\ event_queue' = event_queue
       /\ \A id \in amNotified :
              /\ id \notin Range(event_queue')
              /\ pc' = "process" => cur' # id]_vars

\* C24 witness: an identifier has succeeded and a later poll cycle, which may
\* return it again, is iterating its rows
C24_Witness ==
    /\ amNotified # {}
    /\ success_counter = 1
    /\ lpc = "rows"
    /\ new_rows > 0
    /\ next_run > first_run

\* C25: under a fair, running worker a failing identifier does not starve the
\* others: every identifier that waits in the queue is eventually taken by the
\* worker, and an identifier that raised is put back behind those that were
\* waiting (all of them, in LiveSpec), so it starts no second attempt
\* before each of them has had its first.
C25_NoStarvation ==
    /\ \A id \in Ids : (id \in Range(event_queue)) ~> (cur = id)
    /\ [](\A id, other \in Ids : runs[id] >= 2 => runs[other] >= 1)

\* C25 witness: an identifier raised and was put back, and the worker then took
\* an identifier that had been waiting, for its first attempt, while the failed
\* one waits
C25_Witness ==
    /\ pc = "process"
    /\ runs[cur] = 0
    /\ raises >= 1
    /\ \E f \in Range(event_queue) : f # cur /\ requeued_at[f] = 1 /\ runs[f] >= 1

\* a poll cycle is aborted: an exception in the loop body sends the listener to
\* its error sleep
CycleAborts == lpc = "rows" /\ lpc' = "sleep"

\* C26: a poll cycle aborted by an exception, after any number of its rows were
\* enqueued, leaves next_run as it was (and already due), keeps the seen set and
\* the queue, and sends the listener to a sleep that ends later than now; the
\* sleep is waited out; a due listener that tests its loop condition polls
\* again; and no put, in the re-run or ever, is of an identifier already seen.
C26_AbortedCycleReruns ==
    [][/\ CycleAborts =>
              /\ next_run' = next_run
              /\ now >= next_run
              /\ wake' > now
              /\ processed_ids' = processed_ids
              /\ event_queue' = event_queue
       /\ (lpc = "sleep" /\ lpc' = "loop") => now >= wake
       /\ (lpc = "loop" /\ lpc' # "loop" /\ lrunning /\ now >= next_run) => lpc' = "rows"
       /\ \A id \in Ids : pollerPuts'[id] # pollerPuts[id] =>
              /\ id \notin processed_ids
              /\ pollerPuts[id] = 0
              /\ id \in processed_ids']_vars

\* C26 witness: a cycle put an identifier and was aborted (next_run is still the
\* first one), and after the error sleep the listener polled again and has the
\* rows of the re-run before it
C26_Witness ==
    /\ lpc = "rows"
    /\ new_rows = MaxRows
    /\ processed_ids # {}
    /\ next_run = first_run
    /\ now > first_run

\* C27: the listener calls discovery, and puts an identifier, only when the
\* clock has reached next_run; tested before that time, the loop does nothing
\* but sleep, for at least 1 and at most the idle increment, and the thread
\* comes back to the test of the clock when the sleep has run out.
C27_IdleUntilDue ==
    [][/\ (lpc = "loop" /\ lpc' = "rows") => now >= next_run
       /\ pollerPuts' # pollerPuts => now >= next_run
       /\ (lpc = "loop" /\ lpc' # "loop" /\ lrunning /\ now < next_run) =>
              /\ lpc' = "sleep"
              /\ wake' - now >= 1
              /\ wake' - now <= IdleTicks
              /\ UNCHANGED <<event_queue, processed_ids, next_run, new_rows>>
       /\ (lpc = "sleep" /\ lpc' # "sleep") => (lpc' = "loop" /\ now >= wake)]_vars

\* C27 witness: the listener sleeps one idle increment that ends before the
\* next run: more than the increment remained when the sleep began
C27_Witness ==
    /\ lpc = "sleep"
    /\ wake < next_run
    /\ now < wake

====
